---- MODULE Spec2Model ----
(***************************************************************************)
(* Render-target and multi-pass core of frag-frog: Context, Shader.draw,   *)
(* Framebuffer (lazy resize on bind) and Doublebuffer (generation counter  *)
(* and seed), over an abstract WebGL2 device; the Context's uniform        *)
(* wrappers (sampler2D with its texture parameters, delta, time,           *)
(* resolution), the creation of Framebuffers and Shaders, getColorAt, and  *)
(* the device capabilities (extensions, texture and attachment units).     *)
(*                                                                         *)
(* Device objects (framebuffer objects, textures) are named by naturals    *)
(* handed out in increasing order, 0 being "no object".  The content of an *)
(* image is Clear (freshly allocated storage), Image (the caller's raw     *)
(* image) or Drawn (the output of a pass of the caller's fragment shader). *)
(***************************************************************************)
EXTENDS Integers, Sequences, FiniteSets, TLC

VARIABLES
  canvas,          \* Context.canvas: [width, height] of the visible surface
  surface,         \* content of the visible surface (default framebuffer)
  gl,              \* Context.gl: the device state the library drives
  fbs,             \* the Framebuffer objects created so far (by handle)
  dbs,             \* the Doublebuffer objects created so far (by handle)
  textureCounter,  \* Shader.textureCounter, per shader
  textures,        \* Shader.textures (image -> device texture), per shader
  last,            \* record of the most recent operation (observation only)
  okDraws,         \* per Doublebuffer: draws completed onto it since its creation or
                   \* last seed (observation only)
  sinceBind,       \* per Framebuffer: "never" bound yet, or whether the surface size is
                   \* the "same" or has "changed" since its previous bind (observation only)
  clock,           \* Date.now(), in milliseconds
  lastTime,        \* lastTime of the Context's closure, in milliseconds (0: not set)
  prevDelta,       \* the clock at the latest u.delta() activation, 0 if there was none
                   \* (observation only)
  drawsIssued,     \* per Doublebuffer: draw calls made onto it since its creation,
                   \* completed or not (observation only)
  call,            \* the activation of a uniform source that is under way, call by call
  ops              \* operations issued so far (bounds the exploration)

vars == <<canvas, surface, gl, fbs, dbs, textureCounter, textures, last, okDraws, sinceBind,
          clock, lastTime, prevDelta, drawsIssued, call, ops>>

----------------------------------------------------------------------------
(* Bounds of the exploration *)

MaxOps == 3            \* operations in one run of the Doublebuffer scenario
MaxSlotOps == 2        \* operations in one run of the texture-slot scenario
MaxResizeOps == 3      \* operations in one run of the resize scenario
MaxUniforms == 2       \* uniforms passed to one draw call of the texture-slot scenario
MaxCreateOps == 2      \* operations in one run of the creation scenario
MaxParamOps == 2       \* operations in one run of the texture-parameter scenario
MaxUniformOps == 3     \* operations in one run of the convenience-uniform scenario
MaxResolveOps == 3     \* operations in one run of the read-resolution scenario
MaxFailOps == 3        \* operations in one run of the failed-draw scenario
MaxStack == 6          \* activate calls the engine's call stack holds

Dims == {4, 5, 6}                   \* surface widths and heights tried
Images == {1}                      \* raw images the caller owns (inCanvas)
Shaders == {"user", "other", "blit"}  \* the caller's two shaders and Context.blitShader

----------------------------------------------------------------------------
(* Values *)

Clear == "clear"
Drawn == "drawn"
ImageData(im) == "image"

\* uniform sources and render targets are tagged records; sampler says whether the
\* source is passed through u.sampler2D, and then filter and wrap are the texture
\* parameters given with it ("none" where the caller left one out)
Src(kind, h, i) ==
  [kind |-> kind, h |-> h, i |-> i, sampler |-> "no", filter |-> "none", wrap |-> "none"]
NoSeed == Src("none", 0, 0)
FloatSrc == Src("float", 0, 0)
ImageSrc(im) == Src("img", im, 0)
FbSrc(f) == Src("fb", f, 0)
TexSrc(f, i) == Src("tex", f, i)
DbSrc(d) == Src("db", d, 0)
OutTarget == Src("out", 0, 0)

\* ITextureParameters as passed to u.sampler2D: an object with optional filter and
\* wrap, nothing at all, or a delegate function
Params(filter, wrap) == [form |-> "params", filter |-> filter, wrap |-> wrap]
Undefined == Params("none", "none")
Delegate == [form |-> "callback", filter |-> "none", wrap |-> "none"]
Filters == {"none", "linear", "nearest"}
Wraps == {"none", "repeat", "clampToEdge", "mirroredRepeat"}

\* u.sampler2D(image, params), and the image it wraps
Sampler2D(image, params) ==
  [image EXCEPT !.sampler = params.form, !.filter = params.filter, !.wrap = params.wrap]
Image(src) == [src EXCEPT !.sampler = "no", !.filter = "none", !.wrap = "none"]

Range(s) == {s[i] : i \in DOMAIN s}
Lookup(f, k) == IF k \in DOMAIN f THEN f[k] ELSE 0

\* Math.floor(size * scale) for scale = num/den
Scaled(size, scale) == (size * scale[1]) \div scale[2]

----------------------------------------------------------------------------
(* utils.ts *)

MaxTextureUnits == 32

\* (variant) one more texture unit than the device has
getTextureNumberOneMore(index) ==
  IF index \in 0..MaxTextureUnits THEN [ok |-> TRUE, unit |-> index]
  ELSE [ok |-> FALSE, unit |-> 0]

\* getTextureNumber(gl, index) returns gl.TEXTUREindex for 0..31 and throws otherwise
getTextureNumber(index) ==
  IF index \in 0..(MaxTextureUnits - 1) THEN [ok |-> TRUE, unit |-> index]
  ELSE [ok |-> FALSE, unit |-> 0]

MaxColorAttachments == 16

\* getColorAttachmentNumber(gl, index) returns gl.COLOR_ATTACHMENTindex for 0..15 and
\* throws otherwise
getColorAttachmentNumber(index) ==
  IF index \in 0..(MaxColorAttachments - 1) THEN [ok |-> TRUE, attachment |-> index]
  ELSE [ok |-> FALSE, attachment |-> 0]

----------------------------------------------------------------------------
(* The device (WebGL2RenderingContext), as far as the library drives it *)

\* gl.bindFramebuffer(FRAMEBUFFER, fbo)
glBindFramebuffer(g, fbo) == [g EXCEPT !.framebuffer = fbo]

\* gl.createTexture() / gl.createFramebuffer(): the next unused name
glNewName(g) == g.next

\* gl.deleteTexture(t): the image, its storage format and its parameters are gone and
\* every unit it is bound to reverts to 0
glDeleteTexture(g, t) ==
  [g EXCEPT !.images = [x \in (DOMAIN g.images) \ {t} |-> g.images[x]],
            !.formats = [x \in (DOMAIN g.formats) \ {t} |-> g.formats[x]],
            !.params = [x \in (DOMAIN g.params) \ {t} |-> g.params[x]],
            !.units = [u \in DOMAIN g.units |-> IF g.units[u] = t THEN 0 ELSE g.units[u]]]

\* gl.deleteFramebuffer(fbo): if it is bound, the binding reverts to the default surface
glDeleteFramebuffer(g, fbo) ==
  [g EXCEPT !.fbos = @ \ {fbo},
            !.framebuffer = IF @ = fbo THEN 0 ELSE @]

\* gl.bindTexture(TEXTURE_2D, t) on the active unit
glBindTexture(g, t) == [g EXCEPT !.units = (g.activeTexture :> t) @@ g.units]

\* gl.texImage2D(TEXTURE_2D, 0, internalformat, ..., data) on the texture bound to the
\* active unit
glTexImage2D(g, internalformat, data) ==
  LET t == Lookup(g.units, g.activeTexture)
  IN IF t = 0 THEN g
     ELSE [g EXCEPT !.images = (t :> data) @@ g.images,
                    !.formats = (t :> internalformat) @@ g.formats]

\* the parameters of a texture nobody has set yet
InitialParams ==
  [TEXTURE_MIN_FILTER |-> "NEAREST_MIPMAP_LINEAR", TEXTURE_MAG_FILTER |-> "LINEAR",
   TEXTURE_WRAP_S |-> "REPEAT", TEXTURE_WRAP_T |-> "REPEAT"]

\* gl.getTexParameter for all four parameters of texture t
TexParams(g, t) == IF t \in DOMAIN g.params THEN g.params[t] ELSE InitialParams

\* gl.texParameteri(TEXTURE_2D, pname, value) on the texture bound to the active unit
glTexParameteri(g, pname, value) ==
  LET t == Lookup(g.units, g.activeTexture)
  IN IF t = 0 THEN g
     ELSE [g EXCEPT !.params = (t :> [TexParams(g, t) EXCEPT ![pname] = value]) @@ g.params]

\* console.error(message)
consoleError(g, message) == [g EXCEPT !.console = Append(@, message)]

----------------------------------------------------------------------------
(* Context: device capabilities and texture parameters (context.ts) *)

\* Context.floatingPointTexturesSupported, Context.floatingPointTexturesLinearSamplingSupported
floatingPointTexturesSupported(g) == "EXT_color_buffer_float" \in g.extensions
floatingPointTexturesLinearSamplingSupported(g) == "OES_texture_float_linear" \in g.extensions

LinearWarning == "linear sampling of floating point textures not supported"
FloatWarning == "floating point textures not supported"

\* (variant) the default filter is linear on every device
textureFilterLinear(g, params, usesFloatingPointTextures) ==
  IF params.filter # "none" THEN params.filter ELSE "linear"

\* the filter Context.setActiveTextureParams settles on
textureFilter(g, params, usesFloatingPointTextures) ==
  IF params.filter # "none" THEN params.filter
  ELSE IF usesFloatingPointTextures /\ ~floatingPointTexturesLinearSamplingSupported(g)
       THEN "nearest"
       ELSE "linear"

\* the device constant it passes for the filter
glFilter(filter) == IF filter = "linear" THEN "LINEAR" ELSE "NEAREST"

\* the device constant it passes for the wrap mode
glWrap(params) ==
  CASE params.wrap = "repeat" -> "REPEAT"
    [] params.wrap = "clampToEdge" -> "CLAMP_TO_EDGE"
    [] OTHER -> "MIRRORED_REPEAT"

\* the four gl.texParameteri calls of Context.setActiveTextureParams
applyTextureParams(g, filter, wrap) ==
  glTexParameteri(glTexParameteri(glTexParameteri(glTexParameteri(g,
    "TEXTURE_MIN_FILTER", filter), "TEXTURE_MAG_FILTER", filter),
    "TEXTURE_WRAP_S", wrap), "TEXTURE_WRAP_T", wrap)

\* (variant) the diagnostic does not depend on the filter asked for
setActiveTextureParamsWarns(g, params, usesFloatingPointTextures) ==
  applyTextureParams(
    IF /\ usesFloatingPointTextures
       /\ ~floatingPointTexturesLinearSamplingSupported(g)
    THEN consoleError(g, LinearWarning) ELSE g,
    glFilter(textureFilter(g, params, usesFloatingPointTextures)),
    glWrap(params))

\* Context.setActiveTextureParams(params, usesFloatingPointTextures)
setActiveTextureParams(g, params, usesFloatingPointTextures) ==
  applyTextureParams(
    IF /\ usesFloatingPointTextures
       /\ ~floatingPointTexturesLinearSamplingSupported(g)
       /\ params.filter = "linear"
    THEN consoleError(g, LinearWarning) ELSE g,
    glFilter(textureFilter(g, params, usesFloatingPointTextures)),
    glWrap(params))

\* the delegate of the README's example, called with the device
delegate(g) ==
  [glTexParameteri(glTexParameteri(g, "TEXTURE_WRAP_S", "REPEAT"),
                   "TEXTURE_WRAP_T", "CLAMP_TO_EDGE") EXCEPT !.delegated = @ + 1]

----------------------------------------------------------------------------
(* Framebuffer (framebuffer.ts) *)

RECURSIVE destroyTextures(_, _)
destroyTextures(g, ts) ==
  IF ts = <<>> THEN g ELSE destroyTextures(glDeleteTexture(g, Head(ts)), Tail(ts))

\* Framebuffer.destroy
destroy(fb, g) == glDeleteFramebuffer(destroyTextures(g, fb.textures), fb.fbo)

\* (variant) uncapped storage is allocated whenever it was asked for
allocateUnchecked(g, fb) ==
  IF fb.usesFloatingPointTextures THEN glTexImage2D(g, "RGBA32F", Clear)
  ELSE glTexImage2D(g, "RGBA", Clear)

\* the allocation of empty storage in the texture loop of Framebuffer.init: uncapped
\* (RGBA32F) if asked for and supported, else capped (RGBA), with a diagnostic when it
\* was asked for
allocate(g, fb) ==
  IF fb.usesFloatingPointTextures /\ floatingPointTexturesSupported(g)
  THEN glTexImage2D(g, "RGBA32F", Clear)
  ELSE glTexImage2D(IF fb.usesFloatingPointTextures THEN consoleError(g, FloatWarning) ELSE g,
                    "RGBA", Clear)

\* one round of the texture loop up to the attachment: create t, bind, allocate
initTexture(g, fb, t) == allocate(glBindTexture([g EXCEPT !.next = @ + 1], t), fb)

\* the texture loop of Framebuffer.init; attaching texture number Len(acc) throws when
\* getColorAttachmentNumber does, after the texture was created and allocated
RECURSIVE initTextures(_, _, _)
initTextures(g, fb, acc) ==
  IF Len(acc) = fb.numTextures THEN [gl |-> g, textures |-> acc, ok |-> TRUE]
  ELSE IF ~getColorAttachmentNumber(Len(acc)).ok
       THEN [gl |-> initTexture(g, fb, glNewName(g)), textures |-> acc, ok |-> FALSE]
       ELSE initTextures(initTexture(g, fb, glNewName(g)), fb, Append(acc, glNewName(g)))

\* what Framebuffer.init leaves when its texture loop ended in r: an exception leaves
\* this.textures as it was
initResult(fb, cv, fbo, r) ==
  [fb |-> [fb EXCEPT !.fbo = fbo,
                     !.width = Scaled(cv.width, fb.scale),
                     !.height = Scaled(cv.height, fb.scale),
                     !.textures = IF r.ok THEN r.textures ELSE @],
   gl |-> r.gl, ok |-> r.ok]

\* Framebuffer.init from gl.createFramebuffer() on
initFrom(fb, g0, cv, fbo) ==
  initResult(fb, cv, fbo,
             initTextures(glBindFramebuffer([g0 EXCEPT !.next = @ + 1,
                                                       !.fbos = @ \cup {fbo}], fbo),
                          fb, <<>>))

\* Framebuffer.init: (re)create the framebuffer object and its backing images at the
\* size the surface has now
init(fb, g, cv) ==
  initFrom(fb, IF fb.fbo # 0 THEN destroy(fb, g) ELSE g, cv,
           glNewName(IF fb.fbo # 0 THEN destroy(fb, g) ELSE g))

\* new Framebuffer(context, numTextures, scale, useFloatingPointTextures)
newFramebuffer(numTextures, scale, useFloatingPointTextures, g, cv) ==
  init([fbo |-> 0, textures |-> <<>>, width |-> 0, height |-> 0,
        numTextures |-> numTextures, scale |-> scale,
        usesFloatingPointTextures |-> useFloatingPointTextures], g, cv)

\* (variant) every bind reinitializes
bindAlwaysInit(fb, g, cv) == init(fb, g, cv)

\* (variant) reinitialize only when both dimensions differ
bindBothDiffer(fb, g, cv) ==
  IF /\ fb.width # Scaled(cv.width, fb.scale)
     /\ fb.height # Scaled(cv.height, fb.scale)
  THEN init(fb, g, cv)
  ELSE [fb |-> fb, gl |-> glBindFramebuffer(g, fb.fbo), ok |-> TRUE]

\* Framebuffer.bind
bind(fb, g, cv) ==
  IF \/ fb.width # Scaled(cv.width, fb.scale)
     \/ fb.height # Scaled(cv.height, fb.scale)
  THEN init(fb, g, cv)
  ELSE [fb |-> fb, gl |-> glBindFramebuffer(g, fb.fbo), ok |-> TRUE]

----------------------------------------------------------------------------
(* Doublebuffer (doublebuffer.ts) *)

\* (variant) the seed is ignored: a read always goes to a backing Framebuffer
getReadBufferIgnoresSeed(db) ==
  [ok |-> TRUE, src |-> TexSrc(db.buffers[(db.count % 2) + 1], 0)]

\* (variant) a read fails whenever no seed was set, also after draws
getReadBufferNeedsSeed(db) ==
  IF db.seedBuffer = NoSeed THEN [ok |-> FALSE, src |-> NoSeed]
  ELSE IF db.count = 0 THEN [ok |-> TRUE, src |-> db.seedBuffer]
  ELSE [ok |-> TRUE, src |-> TexSrc(db.buffers[(db.count % 2) + 1], 0)]

\* Doublebuffer.getReadBuffer: the source a read resolves to, or the thrown error
getReadBuffer(db) ==
  IF db.count = 0
  THEN IF db.seedBuffer # NoSeed
       THEN [ok |-> TRUE, src |-> db.seedBuffer]
       ELSE [ok |-> FALSE, src |-> NoSeed]
  ELSE [ok |-> TRUE, src |-> TexSrc(db.buffers[(db.count % 2) + 1], 0)]

\* (variant) the write buffer is the buffer of the current generation
getWriteBufferSameAsRead(db) == db.buffers[(db.count % 2) + 1]

\* Doublebuffer.getWriteBuffer: handle of the Framebuffer to draw into
getWriteBuffer(db) == db.buffers[((db.count + 1) % 2) + 1]

\* (variant) the generation is kept modulo 2
advanceWraps(db) == [db EXCEPT !.count = (@ + 1) % 2]

\* Doublebuffer.advance
advance(db) == [db EXCEPT !.count = @ + 1]

\* (variant) seeding does not reset the generation
seedKeepsCount(db, value) == [db EXCEPT !.seedBuffer = Sampler2D(value, Undefined)]

\* Doublebuffer.seed: the value is kept as u.sampler2D(value)
seed(db, value) == [db EXCEPT !.seedBuffer = Sampler2D(value, Undefined), !.count = 0]

----------------------------------------------------------------------------
(* Uniform activation.  The activation state st threads what one draw call  *)
(* changes while it walks its uniforms: the device, the shader's slot       *)
(* counter and image cache, whether an exception was thrown, and the        *)
(* terminal source / slot / texture / value of the activation just made,    *)
(* and the clock readings of the Context's closure (now, firstTime,         *)
(* lastTime, in milliseconds).                                              *)

Throw(st, err) == [st EXCEPT !.ok = FALSE, !.err = err]

\* Shader.getOrCreateTexture
getOrCreateTexture(st, im) ==
  IF Lookup(st.cache, im) # 0 THEN st
  ELSE LET t == glNewName(st.gl)
       IN [st EXCEPT !.gl = [st.gl EXCEPT !.next = @ + 1, !.images = (t :> Clear) @@ @],
                     !.cache = (im :> t) @@ @]

\* wrapTexImageSource(gl, value).activate: upload the image into this shader's texture
\* for it, bound at the next free slot
wrapTexImageSource(st, im) ==
  LET s1 == getOrCreateTexture(st, im)
      texture == s1.cache[im]
      n == getTextureNumber(s1.counter)
  IN IF ~n.ok THEN Throw(s1, "Invalid texture index")
     ELSE LET g1 == glBindTexture([s1.gl EXCEPT !.activeTexture = n.unit], texture)
              g2 == glTexImage2D(g1, "RGBA32F", ImageData(im))
          IN [s1 EXCEPT !.gl = g2, !.counter = @ + 1,
                        !.term = ImageSrc(im), !.slot = s1.counter, !.tex = texture,
                        !.value = <<s1.counter, 1>>]

\* Framebuffer.getTexture(index).activate: bind backing image index at the next free
\* slot and apply the default texture parameters for this Framebuffer
getTexture(st, F, f, index) ==
  LET n == getTextureNumber(st.counter)
      texture == Lookup(F[f].textures, index + 1)
  IN IF ~n.ok THEN Throw(st, "Invalid texture index")
     ELSE [st EXCEPT !.gl = setActiveTextureParams(
                               glBindTexture([st.gl EXCEPT !.activeTexture = n.unit], texture),
                               Undefined, F[f].usesFloatingPointTextures),
                     !.counter = @ + 1,
                     !.term = TexSrc(f, index), !.slot = st.counter, !.tex = texture,
                     !.value = <<st.counter, 1>>]

\* usesFloatingPointTextures as u.sampler2D computes it for the image passed to it
usesFloatingPointTextures(F, D, image) ==
  \/ image.kind = "fb" /\ F[image.h].usesFloatingPointTextures
  \/ image.kind = "db" /\ F[getWriteBuffer(D[image.h])].usesFloatingPointTextures

\* (variant) a delegate is called before the defaults are applied
sampler2DParamsDelegateFirst(s1, F, D, src) ==
  IF ~s1.ok THEN s1
  ELSE IF src.sampler = "callback"
       THEN [s1 EXCEPT !.gl = setActiveTextureParams(delegate(@), Undefined,
                                         usesFloatingPointTextures(F, D, Image(src)))]
       ELSE [s1 EXCEPT !.gl = setActiveTextureParams(@, Params(src.filter, src.wrap),
                                         usesFloatingPointTextures(F, D, Image(src)))]

\* the end of u.sampler2D(image, params).activate, s1 being what activating the image
\* left: the parameters are applied to the texture bound last, a delegate after the
\* defaults
sampler2DParams(s1, F, D, src) ==
  IF ~s1.ok THEN s1
  ELSE IF src.sampler = "callback"
       THEN [s1 EXCEPT !.gl = delegate(setActiveTextureParams(@, Undefined,
                                         usesFloatingPointTextures(F, D, Image(src))))]
       ELSE [s1 EXCEPT !.gl = setActiveTextureParams(@, Params(src.filter, src.wrap),
                                         usesFloatingPointTextures(F, D, Image(src)))]

\* (variant) the first delta activation of every draw binds the nominal interval
deltaPerDraw(st) ==
  [st EXCEPT !.value = IF st.acts = <<>> THEN <<1, 60>> ELSE <<st.now - st.lastTime, 1000>>,
             !.lastTime = st.now, !.term = Src("delta", 0, 0), !.slot = -1, !.tex = 0]

\* u.delta().activate: 1/60 while lastTime is 0, else now - lastTime (seconds, as a
\* fraction); lastTime becomes now
delta(st) ==
  [st EXCEPT !.value = IF st.lastTime = 0 THEN <<1, 60>> ELSE <<st.now - st.lastTime, 1000>>,
             !.lastTime = st.now, !.term = Src("delta", 0, 0), !.slot = -1, !.tex = 0]

\* u.time().activate: now - firstTime
time(st) ==
  [st EXCEPT !.value = <<st.now - st.firstTime, 1000>>,
             !.term = Src("time", 0, 0), !.slot = -1, !.tex = 0]

\* u.resolution().activate: the size of the canvas
resolution(st) ==
  [st EXCEPT !.value = <<st.canvas.width, st.canvas.height>>,
             !.term = Src("resolution", 0, 0), !.slot = -1, !.tex = 0]

\* UniformSource.activate for every kind of source; a Doublebuffer delegates to what
\* getReadBuffer returns, and fuel is the call depth left before the stack overflows
RECURSIVE activate(_, _, _, _, _)
activate(st, F, D, src, fuel) ==
  CASE src.sampler # "no" ->
         sampler2DParams(activate(st, F, D, Image(src), fuel), F, D, src)
    [] src.kind = "float" -> [st EXCEPT !.term = src, !.slot = -1, !.tex = 0,
                                        !.value = <<0, 1>>]
    [] src.kind = "delta" -> delta(st)
    [] src.kind = "time" -> time(st)
    [] src.kind = "resolution" -> resolution(st)
    [] src.kind = "img" -> wrapTexImageSource(st, src.h)
    [] src.kind = "fb" -> getTexture(st, F, src.h, 0)
    [] src.kind = "tex" -> getTexture(st, F, src.h, src.i)
    [] src.kind = "db" ->
         LET r == getReadBuffer(D[src.h])
         IN IF ~r.ok THEN Throw(st, "Cannot do an initial read from an unseeded double buffer")
            ELSE IF fuel = 0 THEN Throw(st, "Maximum call stack size exceeded")
            ELSE activate(st, F, D, r.src, fuel - 1)

\* what activating uniform src left in s1, noted in the list of activations made
activated(src, s1) ==
  IF s1.ok
  THEN [s1 EXCEPT !.acts = Append(@, [src |-> src, term |-> s1.term, slot |-> s1.slot,
                                      tex |-> s1.tex, value |-> s1.value])]
  ELSE s1

\* the loop over the uniforms in Shader.draw; the first exception ends it
RECURSIVE activateAll(_, _, _, _)
activateAll(st, F, D, us) ==
  IF us = <<>> \/ ~st.ok THEN st
  ELSE activateAll(activated(Head(us), activate(st, F, D, Head(us), Len(D))),
                   F, D, Tail(us))

----------------------------------------------------------------------------
(* Shader.draw (shader.ts) *)

\* (variant) a Doublebuffer binds the buffer of the current generation
BoundFramebufferRead(D, target) ==
  CASE target.kind = "out" -> 0
    [] target.kind = "fb" -> target.h
    [] target.kind = "db" -> D[target.h].buffers[(D[target.h].count % 2) + 1]

\* the Framebuffer a target binds: none for context.out, itself for a Framebuffer,
\* the write buffer for a Doublebuffer (Doublebuffer.bind)
BoundFramebuffer(D, target) ==
  CASE target.kind = "out" -> 0
    [] target.kind = "fb" -> target.h
    [] target.kind = "db" -> getWriteBuffer(D[target.h])

\* target.bind()
bindTarget(F, D, g, cv, target) ==
  LET f == BoundFramebuffer(D, target)
  IN IF f = 0
     THEN [fbs |-> F, gl |-> glBindFramebuffer(g, 0)]
     ELSE LET r == bind(F[f], g, cv)
          IN [fbs |-> [F EXCEPT ![f] = r.fb], gl |-> r.gl]

\* target.width, target.height as the getters return them
targetSize(F, D, cv, target) ==
  LET f == BoundFramebuffer(D, target)
  IN IF f = 0 THEN <<cv.width, cv.height>> ELSE <<F[f].width, F[f].height>>

\* the backing images attached to the bound framebuffer object
Attachments(F, fbo) ==
  UNION {Range(F[f].textures) : f \in {x \in DOMAIN F : F[x].fbo = fbo}}

\* what the fragment stage computes from the image it samples: the blit shader copies
\* it, the caller's shader computes something new
FragmentOutput(sh, c) == IF sh = "blit" THEN c ELSE Drawn

\* gl.drawElements: one full quad into the bound framebuffer, sampling texture unit 0;
\* sampling an image that is attached to the framebuffer drawn into is a feedback loop,
\* which the device rejects without drawing
drawElements(sh, F, g, sf) ==
  LET sampled == Lookup(g.units, 0)
      data == IF sampled \in DOMAIN g.images THEN g.images[sampled] ELSE Clear
      out == FragmentOutput(sh, data)
      att == Attachments(F, g.framebuffer)
  IN IF g.framebuffer = 0 THEN [gl |-> g, surface |-> out]
     ELSE IF sampled \in att THEN [gl |-> g, surface |-> sf]
     ELSE [gl |-> [g EXCEPT !.images = [t \in DOMAIN g.images |->
                                          IF t \in att THEN out ELSE g.images[t]]],
           surface |-> sf]

\* (variant) every Doublebuffer advances, whatever the target
advanceTargetAll(D, target) == [d \in DOMAIN D |-> advance(D[d])]

\* the end of Shader.draw's uniform phase: a Doublebuffer target advances
advanceTarget(D, target) ==
  IF target.kind = "db" THEN [D EXCEPT ![target.h] = advance(D[target.h])] ELSE D

\* (variant) the slot counter carries over from the previous draw
resetTextureCounterSkipped(counter) == counter

\* this.textureCounter = 0 at the start of Shader.draw
resetTextureCounter(counter) == 0

\* the shaders whose options declare a varying of the kind v.XY(): the caller's first
\* one (the blit shader declares v.UV() only)
XYShaders == {"user"}

\* gl.uniform2fv(this.u_resParam, [target.width, target.height]), D being the
\* Doublebuffers after the advance of the target; <<0, 0>> when the shader has no such
\* input
u_fragfrog_res(sh, F, D, cv, target) ==
  IF sh \in XYShaders THEN targetSize(F, D, cv, target) ELSE <<0, 0>>

\* (variant) the target advances whether or not the uniform phase completed
drawResultAdvances(sh, target, D, cv, F, st, r) ==
  [fbs |-> F, dbs |-> advanceTarget(D, target),
   gl |-> r.gl, surface |-> r.surface,
   counter |-> st.counter, cache |-> st.cache,
   ok |-> st.ok, err |-> st.err, acts |-> st.acts, lastTime |-> st.lastTime,
   bound |-> BoundFramebuffer(D, target),
   viewport |-> targetSize(F, D, cv, target),
   res |-> IF st.ok THEN u_fragfrog_res(sh, F, advanceTarget(D, target), cv, target)
           ELSE <<0, 0>>]

\* what Shader.draw leaves: the uniform phase ended in st on the Framebuffers F, and r
\* is the device and surface after gl.drawElements, which an exception in st skipped;
\* viewport is what gl.viewport was given, res the resolution input
drawResult(sh, target, D, cv, F, st, r) ==
  [fbs |-> F, dbs |-> IF st.ok THEN advanceTarget(D, target) ELSE D,
   gl |-> r.gl, surface |-> r.surface,
   counter |-> st.counter, cache |-> st.cache,
   ok |-> st.ok, err |-> st.err, acts |-> st.acts, lastTime |-> st.lastTime,
   bound |-> BoundFramebuffer(D, target),
   viewport |-> targetSize(F, D, cv, target),
   res |-> IF st.ok THEN u_fragfrog_res(sh, F, advanceTarget(D, target), cv, target)
           ELSE <<0, 0>>]

\* Shader.draw from the advance of the target to gl.drawElements
drawSubmit(sh, target, D, sf, cv, F, st) ==
  drawResult(sh, target, D, cv, F, st,
             IF st.ok THEN drawElements(sh, F, st.gl, sf)
             ELSE [gl |-> st.gl, surface |-> sf])

\* Shader.draw from the reset of the slot counter on, b being what target.bind() left
drawUniforms(sh, target, us, D, sf, cv, shader, b) ==
  drawSubmit(sh, target, D, sf, cv, b.fbs,
             activateAll([gl |-> b.gl, counter |-> resetTextureCounter(shader.counter),
                          cache |-> shader.cache, ok |-> TRUE, err |-> "",
                          acts |-> <<>>, term |-> NoSeed, slot |-> -1, tex |-> 0,
                          value |-> <<0, 1>>, canvas |-> cv, now |-> shader.now,
                          firstTime |-> shader.firstTime, lastTime |-> shader.lastTime],
                         b.fbs, D, us))

\* Shader.draw(target, uniforms) by shader sh, from the state (F, D, g, sf); the record
\* shader holds the shader's slot counter and image cache and what its Context's clock
\* readings are
draw(sh, target, us, F, D, g, sf, cv, shader) ==
  drawUniforms(sh, target, us, D, sf, cv, shader, bindTarget(F, D, g, cv, target))

----------------------------------------------------------------------------
(* State machine *)

\* what the last operation was: its name, the object it was called on or drew onto,
\* whether it returned normally, the value passed to seed, and for a direct bind what
\* sinceBind said before it
NoPixel == [framebuffer |-> 0, x |-> 0, y |-> 0, data |-> Clear]

\* (the further fields are filled in by the operations they belong to: the shader and
\* the uniforms of a draw, the activations it made and the size of its target, the
\* numeric or boolean
\* arguments of a call, whether a new Framebuffer or the program of a new Shader is
\* there, what getColorAt read)
Log(op, target, ok) ==
  [op |-> op, target |-> target, ok |-> ok, arg |-> NoSeed, since |-> "none",
   shader |-> "", uniforms |-> <<>>, acts |-> <<>>, size |-> <<0, 0>>, args |-> <<0, 0>>,
   flags |-> <<FALSE, FALSE, FALSE>>, read |-> NoPixel]

\* the objects w with the Framebuffer r.fb added, on the device r.gl its creation left;
\* a constructor that threw leaves no Framebuffer
withFramebuffer(w, r) ==
  IF r.ok THEN [w EXCEPT !.fbs = Append(@, r.fb), !.gl = r.gl] ELSE [w EXCEPT !.gl = r.gl]

\* Context.createFramebuffer(numTextures, scaledownFactor, useFloatingPointTextures)
createFramebuffer(w, numTextures, scaledownFactor, useFloatingPointTextures) ==
  withFramebuffer(w, newFramebuffer(numTextures, scaledownFactor, useFloatingPointTextures,
                                    w.gl, w.canvas))

\* new Doublebuffer(context, ...) over the two Framebuffers created last
newDoublebuffer(w) ==
  [w EXCEPT !.dbs = Append(@, [seedBuffer |-> NoSeed,
                               buffers |-> <<Len(w.fbs) - 1, Len(w.fbs)>>,
                               count |-> 0])]

\* Context.createDoublebuffer(useFloatingPointTextures): two single-texture, full-scale
\* Framebuffers
createDoublebuffer(w, useFloatingPointTextures) ==
  newDoublebuffer(createFramebuffer(createFramebuffer(w, 1, <<1, 1>>,
                                                      useFloatingPointTextures),
                                    1, <<1, 1>>, useFloatingPointTextures))

\* the Framebuffers the caller holds (those of a Doublebuffer are private to it)
CallerFramebuffers == {f \in DOMAIN fbs : \A d \in DOMAIN dbs : f \notin Range(dbs[d].buffers)}

\* everything the caller can pass as a uniform: a scalar, a raw image, a Framebuffer
\* (its texture 0), a view of its texture 1, a Doublebuffer
Sources ==
  {FloatSrc} \cup {Sampler2D(ImageSrc(im), Undefined) : im \in Images}
  \cup {FbSrc(f) : f \in CallerFramebuffers}
  \cup {TexSrc(f, 1) : f \in CallerFramebuffers}
  \cup {DbSrc(d) : d \in DOMAIN dbs}

\* what Doublebuffer.seed accepts
Seeds ==
  {ImageSrc(im) : im \in Images} \cup {FbSrc(f) : f \in CallerFramebuffers}
  \cup {DbSrc(d) : d \in DOMAIN dbs}

\* everything the caller can draw onto
Targets == {OutTarget} \cup {FbSrc(f) : f \in CallerFramebuffers} \cup {DbSrc(d) : d \in DOMAIN dbs}

\* uniform assignments of a draw call: none or one uniform
AtMostOne == {<<>>} \cup {<<s>> : s \in Sources}

\* the texture-slot scenario draws onto the surface and the first Doublebuffer, with
\* up to MaxUniforms uniforms, each a scalar, a raw image, the Framebuffer or the first
\* Doublebuffer (which reads as what it was seeded with, a raw image or the
\* Framebuffer, or as one of its own Framebuffers)
SlotTargets == {OutTarget, DbSrc(1)}
SlotSources ==
  {FloatSrc, FbSrc(1), DbSrc(1)} \cup {Sampler2D(ImageSrc(im), Undefined) : im \in Images}
SlotSeeds == {FbSrc(1)} \cup {ImageSrc(im) : im \in Images}
UniformLists == UNION {[1..n -> SlotSources] : n \in 0..MaxUniforms}

\* the extensions the Context asks the device for
Extensions == {"EXT_color_buffer_float", "OES_texture_float_linear"}

\* Date.now() when the Context is constructed
FirstTime == 1

\* the device after new Context(canvas), supporting the extensions ext (delegated: how
\* often the delegate passed to u.sampler2D was called with it)
NewDevice(ext) ==
  [framebuffer |-> 0, activeTexture |-> 0, units |-> <<>>, images |-> <<>>,
   formats |-> <<>>, params |-> <<>>, console |-> <<>>, extensions |-> ext,
   fbos |-> {}, next |-> 1, delegated |-> 0]

\* the objects w are the ones the program holds, none drawn onto or bound yet
Created(w) ==
  /\ gl = w.gl
  /\ fbs = w.fbs
  /\ dbs = w.dbs
  /\ okDraws = [d \in DOMAIN w.dbs |-> 0]
  /\ drawsIssued = [d \in DOMAIN w.dbs |-> 0]
  /\ sinceBind = [f \in DOMAIN w.fbs |-> "never"]

\* no activation under way: the status of a call is "idle", "running", "done" (src is
\* the source whose texture was bound) or "error" (err is the message); depth is the
\* number of activate calls on the stack
NoCall == [status |-> "idle", src |-> NoSeed, depth |-> 0, err |-> ""]

\* The state after
\*   ff = fragFrog(canvas); fb = ff.createFramebuffer(2, 0.5, fbFloat);
\*   db1 = ff.createDoublebuffer(db1Float); db2 = ff.createDoublebuffer(db2Float);
\* on a 4 x 4 canvas of a device supporting the extensions ext
InitOn(ext, fbFloat, db1Float, db2Float) ==
  /\ canvas = [width |-> 4, height |-> 4]
  /\ surface = Clear
  /\ textureCounter = [s \in Shaders |-> 0]
  /\ textures = [s \in Shaders |-> <<>>]
  /\ Created(createDoublebuffer(createDoublebuffer(
               createFramebuffer([canvas |-> canvas, gl |-> NewDevice(ext),
                                  fbs |-> <<>>, dbs |-> <<>>], 2, <<1, 2>>, fbFloat),
               db1Float), db2Float))
  /\ clock = FirstTime
  /\ lastTime = 0
  /\ prevDelta = 0
  /\ call = NoCall
  /\ last = Log("new", OutTarget, TRUE)
  /\ ops = 0

\* every extension supported, every object with capped range
Init == InitOn(Extensions, FALSE, FALSE, FALSE)

\* (variant) a resize reconciles every Framebuffer at once
RECURSIVE bindFrom(_, _, _, _)
bindFrom(i, F, g, cv) ==
  IF i > Len(F) THEN [fbs |-> F, gl |-> g]
  ELSE LET r == bind(F[i], g, cv)
       IN bindFrom(i + 1, [F EXCEPT ![i] = r.fb], r.gl, cv)

resizeEager(w, h, F, g) ==
  LET cv == [width |-> w, height |-> h]
      r == bindFrom(1, F, g, cv)
  IN [canvas |-> cv, fbs |-> r.fbs, gl |-> r.gl]

\* Context.resize(width, height): only the surface changes
resize(w, h, F, g) == [canvas |-> [width |-> w, height |-> h], fbs |-> F, gl |-> g]

\* context.resize(width, height), or the surface being resized from outside
Resize(w, h) ==
  /\ canvas' = resize(w, h, fbs, gl).canvas
  /\ fbs' = resize(w, h, fbs, gl).fbs
  /\ gl' = resize(w, h, fbs, gl).gl
  /\ sinceBind' = [f \in DOMAIN sinceBind |->
                     IF sinceBind[f] = "same" /\ canvas' # canvas THEN "changed"
                     ELSE sinceBind[f]]
  /\ last' = Log("resize", OutTarget, TRUE)
  /\ ops' = ops + 1
  /\ UNCHANGED <<call, drawsIssued, surface, dbs, textureCounter, textures, okDraws, clock,
                 lastTime, prevDelta>>

\* Doublebuffer.seed(value)
Seed(d, value) ==
  /\ dbs' = [dbs EXCEPT ![d] = seed(dbs[d], value)]
  /\ okDraws' = [okDraws EXCEPT ![d] = 0]
  /\ last' = [Log("seed", DbSrc(d), TRUE) EXCEPT !.arg = value]
  /\ ops' = ops + 1
  /\ UNCHANGED <<call, drawsIssued, canvas, surface, gl, fbs, textureCounter, textures,
                 sinceBind, clock, lastTime, prevDelta>>

\* the slot counter and image cache of shader sh, and the clock readings of its Context
ShaderState(sh) ==
  [counter |-> textureCounter[sh], cache |-> textures[sh],
   now |-> clock, firstTime |-> FirstTime, lastTime |-> lastTime]

\* whether the activations acts include one of u.delta()
hasDelta(acts) == \E i \in DOMAIN acts : acts[i].term.kind = "delta"

\* the state a draw call by shader sh leaves, log being the record of it
Logged(sh, op, target, r, log) ==
  /\ fbs' = r.fbs
  /\ dbs' = r.dbs
  /\ gl' = r.gl
  /\ surface' = r.surface
  /\ textureCounter' = [textureCounter EXCEPT ![sh] = r.counter]
  /\ textures' = [textures EXCEPT ![sh] = r.cache]
  /\ sinceBind' = IF r.bound = 0 THEN sinceBind ELSE [sinceBind EXCEPT ![r.bound] = "same"]
  /\ last' = log
  /\ okDraws' = IF op = "draw" /\ r.ok /\ target.kind = "db"
                THEN [okDraws EXCEPT ![target.h] = @ + 1]
                ELSE okDraws
  /\ drawsIssued' = IF op = "draw" /\ target.kind = "db"
                    THEN [drawsIssued EXCEPT ![target.h] = @ + 1]
                    ELSE drawsIssued
  /\ lastTime' = r.lastTime
  /\ prevDelta' = IF hasDelta(r.acts) THEN clock ELSE prevDelta
  /\ ops' = ops + 1
  /\ UNCHANGED <<call, canvas, clock>>

\* the state a draw call by shader sh leaves
AfterDraw(sh, op, target, r) == Logged(sh, op, target, r, Log(op, target, r.ok))

\* shader.draw(target, uniforms) with the caller's shader
Draw(target, us) ==
  AfterDraw("user", "draw", target,
            draw("user", target, us, fbs, dbs, gl, surface, canvas, ShaderState("user")))

\* framebuffer.bind() called directly
Bind(f) ==
  LET r == bind(fbs[f], gl, canvas)
  IN /\ fbs' = [fbs EXCEPT ![f] = r.fb]
     /\ gl' = r.gl
     /\ sinceBind' = [sinceBind EXCEPT ![f] = "same"]
     /\ last' = [Log("bind", FbSrc(f), TRUE) EXCEPT !.since = sinceBind[f]]
     /\ ops' = ops + 1
     /\ UNCHANGED <<call, drawsIssued, canvas, surface, dbs, textureCounter, textures,
                    okDraws, clock, lastTime, prevDelta>>

\* framebuffer.flush(index)
FlushFramebuffer(f, index) ==
  AfterDraw("blit", "flush", FbSrc(f),
            draw("blit", OutTarget, <<TexSrc(f, index)>>, fbs, dbs, gl, surface, canvas,
                 ShaderState("blit")))

\* doublebuffer.flush(): the read buffer is resolved before the blit draw starts
FlushDoublebuffer(d) ==
  LET rb == getReadBuffer(dbs[d])
  IN IF ~rb.ok
     THEN /\ last' = Log("flush", DbSrc(d), FALSE)
          /\ ops' = ops + 1
          /\ UNCHANGED <<call, drawsIssued, canvas, surface, gl, fbs, dbs, textureCounter,
                         textures, okDraws, sinceBind, clock, lastTime, prevDelta>>
     ELSE AfterDraw("blit", "flush", DbSrc(d),
                    draw("blit", OutTarget, <<rb.src>>, fbs, dbs, gl, surface, canvas,
                         ShaderState("blit")))

\* Doublebuffer scenario: seeding, drawing with at most one uniform, flushing, on a
\* surface of constant size
NextDoublebuffer ==
  \/ \E d \in DOMAIN dbs : \E v \in Seeds : ops < MaxOps /\ Seed(d, v)
  \/ \E t \in Targets : \E us \in AtMostOne : ops < MaxOps /\ Draw(t, us)
  \/ \E d \in DOMAIN dbs : ops < MaxOps /\ FlushDoublebuffer(d)

SpecDoublebuffer == Init /\ [][NextDoublebuffer]_vars

\* k uniforms, each the Framebuffer created first
Textures(k) == [i \in 1..k |-> FbSrc(1)]

\* Texture-slot scenario: draws with several uniforms
NextSlots ==
  \/ \E v \in SlotSeeds : ops < MaxSlotOps /\ Seed(1, v)
  \/ \E t \in SlotTargets : \E us \in UniformLists : ops < MaxSlotOps /\ Draw(t, us)

SpecSlots == Init /\ [][NextSlots]_vars

\* the uniform assignments of the failed-draw scenario: none, the first Doublebuffer
\* (unseeded at first), the second one (never seeded) alone or after a raw image, and
\* one texture more than the device has slots for
FailingLists ==
  {<<>>, <<DbSrc(1)>>, <<DbSrc(2)>>, <<Sampler2D(ImageSrc(1), Undefined), DbSrc(2)>>,
   Textures(MaxTextureUnits + 1)}

\* Failed-draw scenario: the first Doublebuffer is seeded and drawn onto, with draws
\* that fail during uniform activation among them
NextFail ==
  \/ \E v \in SlotSeeds : ops < MaxFailOps /\ Seed(1, v)
  \/ \E t \in SlotTargets : \E us \in FailingLists : ops < MaxFailOps /\ Draw(t, us)

SpecFail == Init /\ [][NextFail]_vars

\* Resize scenario: the surface changes size between binds, draws and flushes of the
\* Framebuffer and of the first Doublebuffer
NextResize ==
  \/ \E w \in Dims, h \in Dims : ops < MaxResizeOps /\ Resize(w, h)
  \/ \E f \in CallerFramebuffers : ops < MaxResizeOps /\ Bind(f)
  \/ \E t \in {OutTarget, FbSrc(1), DbSrc(1)} :
       \E us \in {<<>>, <<Sampler2D(ImageSrc(1), Undefined)>>, <<FbSrc(1)>>,
                  <<TexSrc(1, 1)>>, <<DbSrc(1)>>} :
         ops < MaxResizeOps /\ Draw(t, us)
  \/ \E f \in CallerFramebuffers : \E i \in {0, 1} :
       ops < MaxResizeOps /\ FlushFramebuffer(f, i)
  \/ ops < MaxResizeOps /\ FlushDoublebuffer(1)

SpecResize == Init /\ [][NextResize]_vars

\* gl.readPixels(x, y, 1, 1, ...): one pixel of the framebuffer that is bound, the
\* surface if none is, else the first attachment of the bound framebuffer object
readPixels(g, F, sf, x, y) ==
  [framebuffer |-> g.framebuffer, x |-> x, y |-> y,
   data |-> IF g.framebuffer = 0 THEN sf
            ELSE IF \E f \in DOMAIN F : F[f].fbo = g.framebuffer /\ F[f].textures # <<>>
                 THEN g.images[(F[CHOOSE f \in DOMAIN F : F[f].fbo = g.framebuffer
                                                         /\ F[f].textures # <<>>]).textures[1]]
                 ELSE Clear]

\* Context.getColorAt(x, y)
getColorAt(x, y, g, F, sf, cv) == readPixels(g, F, sf, x, cv.height - y - 1)

\* context.getColorAt(x, y)
GetColorAt(x, y) ==
  /\ last' = [Log("getColorAt", OutTarget, TRUE) EXCEPT
                !.args = <<x, y>>, !.read = getColorAt(x, y, gl, fbs, surface, canvas)]
  /\ ops' = ops + 1
  /\ UNCHANGED <<call, drawsIssued, canvas, surface, gl, fbs, dbs, textureCounter, textures,
                 okDraws, sinceBind, clock, lastTime, prevDelta>>

\* Shader.createShader(type, source): compiles tells whether the device compiles the
\* source; a failure is reported and thrown
createShader(g, compiles) ==
  IF compiles THEN [ok |-> TRUE, gl |-> g]
  ELSE [ok |-> FALSE, gl |-> consoleError(g, "Error compiling shader")]

\* Shader.createProgram(vtxShader, fragShader): links tells whether the device links
\* the two stages; the link status is not looked at
createProgram(g, links) == [ok |-> TRUE, gl |-> g, linked |-> links]

\* new Shader(src, context, options) from the compilation of the fragment stage on
fragmentStage(r, links) ==
  IF ~r.ok THEN [ok |-> FALSE, gl |-> r.gl, linked |-> FALSE]
  ELSE createProgram(r.gl, links)

\* new Shader(src, context, options) from the compilation of the vertex stage on
vertexStage(r, fragmentCompiles, links) ==
  IF ~r.ok THEN [ok |-> FALSE, gl |-> r.gl, linked |-> FALSE]
  ELSE fragmentStage(createShader(r.gl, fragmentCompiles), links)

\* new Shader(src, context, options)
newShader(g, vertexCompiles, fragmentCompiles, links) ==
  vertexStage(createShader(g, vertexCompiles), fragmentCompiles, links)

\* the state context.createShader leaves when the constructor ended in r
ShaderCreated(r, stages) ==
  /\ gl' = r.gl
  /\ last' = [Log("createShader", OutTarget, r.ok) EXCEPT !.flags = stages]
  /\ ops' = ops + 1
  /\ UNCHANGED <<call, drawsIssued, canvas, surface, fbs, dbs, textureCounter, textures,
                 okDraws, sinceBind, clock, lastTime, prevDelta>>

\* context.createShader(src, options) for a source whose stages compile and link as told
CreateShader(vertexCompiles, fragmentCompiles, links) ==
  ShaderCreated(newShader(gl, vertexCompiles, fragmentCompiles, links),
                <<vertexCompiles, fragmentCompiles, links>>)

\* canvas.getContext('webgl2') on a canvas whose connection so far is of the kind
\* connection ("none": getContext was never called on it), on a platform where webgl2
\* is available or not: the connection the canvas has, one newly made, or "null"
getContext(connection, available) ==
  IF connection = "webgl2" THEN "webgl2"
  ELSE IF connection # "none" \/ ~available THEN "null"
  ELSE "webgl2"

\* (variant) the constructor does not look at what getContext returned
newContextUnchecked(connection, available) ==
  [ok |-> TRUE, gl |-> getContext(connection, available)]

\* new Context(canvas)
newContext(connection, available) ==
  IF getContext(connection, available) = "null" THEN [ok |-> FALSE, gl |-> "none"]
  ELSE [ok |-> TRUE, gl |-> getContext(connection, available)]

\* the kinds of connection a canvas handed to fragFrog may have
Connections == {"none", "2d", "webgl2"}

\* the state fragFrog leaves when the constructor ended in r
ContextCreated(r, connection, available) ==
  /\ last' = [Log("fragFrog", OutTarget, r.ok) EXCEPT
                !.shader = connection, !.flags = <<available, r.gl = "webgl2", FALSE>>]
  /\ ops' = ops + 1
  /\ UNCHANGED <<call, drawsIssued, canvas, surface, gl, fbs, dbs, textureCounter, textures,
                 okDraws, sinceBind, clock, lastTime, prevDelta>>

\* fragFrog(canvas) for another canvas, with the connection it has so far
FragFrog(connection, available) ==
  ContextCreated(newContext(connection, available), connection, available)

\* the state context.createFramebuffer leaves when it ended in the objects w
FramebufferCreated(w, numTextures, useFloatingPointTextures) ==
  /\ gl' = w.gl
  /\ fbs' = w.fbs
  /\ sinceBind' = IF Len(w.fbs) > Len(fbs) THEN Append(sinceBind, "never") ELSE sinceBind
  /\ last' = [Log("createFramebuffer",
                  IF Len(w.fbs) > Len(fbs) THEN FbSrc(Len(w.fbs)) ELSE NoSeed,
                  Len(w.fbs) > Len(fbs)) EXCEPT
                !.args = <<numTextures, 0>>,
                !.flags = <<useFloatingPointTextures, FALSE, FALSE>>]
  /\ ops' = ops + 1
  /\ UNCHANGED <<call, drawsIssued, canvas, surface, dbs, textureCounter, textures, okDraws,
                 clock, lastTime, prevDelta>>

\* context.createFramebuffer(numTextures, scaledownFactor, useFloatingPointTextures)
CreateFramebuffer(numTextures, scaledownFactor, useFloatingPointTextures) ==
  FramebufferCreated(createFramebuffer([canvas |-> canvas, gl |-> gl, fbs |-> fbs,
                                        dbs |-> dbs],
                                       numTextures, scaledownFactor,
                                       useFloatingPointTextures),
                     numTextures, useFloatingPointTextures)

\* shader.draw(target, uniforms) with the caller's shader sh, the uniforms, the
\* activations made and the size of the target noted
DrawLogged(sh, target, us) ==
  LET r == draw(sh, target, us, fbs, dbs, gl, surface, canvas, ShaderState(sh))
  IN Logged(sh, "draw", target, r,
            [Log("draw", target, r.ok) EXCEPT !.shader = sh, !.uniforms = us,
                                               !.acts = r.acts, !.size = r.viewport])

\* the scaledown factors tried: a half, one, two
Factors == {<<1, 2>>, <<1, 1>>, <<2, 1>>}

\* a device supporting any of the extensions, with an uncapped Framebuffer
InitCreate == \E ext \in SUBSET Extensions : InitOn(ext, TRUE, FALSE, FALSE)

\* Creation scenario: single-texture Framebuffers of every factor, full-size ones of up
\* to one texture more than the device attaches, Shaders that may fail to compile or
\* link, draws onto the surface and the first Framebuffer binding up to one texture more
\* than the device has slots for, resizes to a square, binds and pixel reads, and
\* Contexts made for other canvases
NextCreate ==
  \/ \E s \in Factors : \E float \in BOOLEAN :
       ops < MaxCreateOps /\ CreateFramebuffer(1, s, float)
  \/ \E n \in {MaxColorAttachments, MaxColorAttachments + 1} : \E float \in BOOLEAN :
       ops < MaxCreateOps /\ CreateFramebuffer(n, <<1, 1>>, float)
  \/ \E v, f, l \in BOOLEAN : ops < MaxCreateOps /\ CreateShader(v, f, l)
  \/ \E c \in Connections : \E a \in BOOLEAN : ops < MaxCreateOps /\ FragFrog(c, a)
  \/ \E y \in {0, 1} : ops < MaxCreateOps /\ GetColorAt(0, y)
  \/ \E w \in Dims : ops < MaxCreateOps /\ Resize(w, w)
  \/ \E f \in CallerFramebuffers : ops < MaxCreateOps /\ Bind(f)
  \/ \E t \in {OutTarget, FbSrc(1)} :
       \E k \in {0, MaxTextureUnits, MaxTextureUnits + 1} :
         ops < MaxCreateOps /\ DrawLogged("user", t, Textures(k))

SpecCreate == InitCreate /\ [][NextCreate]_vars

\* what the texture-parameter scenario passes to u.sampler2D: the Framebuffer, a view of
\* its texture 1, either Doublebuffer, a raw image
SampledImages == {FbSrc(1), TexSrc(1, 1), DbSrc(1), DbSrc(2)} \cup {ImageSrc(im) : im \in Images}

\* and the texture parameters it passes: none, a filter, a wrap mode, a delegate
SampledParams ==
  {Undefined, Params("linear", "none"), Params("nearest", "none"),
   Params("none", "repeat"), Delegate}

\* a device supporting any of the extensions, the Framebuffer and the first Doublebuffer
\* with capped or uncapped range, the second Doublebuffer capped
InitParams ==
  \E ext \in SUBSET Extensions : \E fbFloat, dbFloat \in BOOLEAN :
    InitOn(ext, fbFloat, dbFloat, FALSE)

\* Texture-parameter scenario: draws onto the surface with one u.sampler2D uniform,
\* seeds of either Doublebuffer with the Framebuffer, draws onto the first Doublebuffer
NextParams ==
  \/ \E image \in SampledImages : \E params \in SampledParams :
       ops < MaxParamOps /\ DrawLogged("user", OutTarget, <<Sampler2D(image, params)>>)
  \/ \E d \in DOMAIN dbs : ops < MaxParamOps /\ Seed(d, FbSrc(1))
  \/ ops < MaxParamOps /\ Draw(DbSrc(1), <<>>)

SpecParams == InitParams /\ [][NextParams]_vars

\* time passes: Date.now() is one millisecond later
Tick ==
  /\ clock' = clock + 1
  /\ last' = Log("tick", OutTarget, TRUE)
  /\ ops' = ops + 1
  /\ UNCHANGED <<call, drawsIssued, canvas, surface, gl, fbs, dbs, textureCounter, textures,
                 okDraws, sinceBind, lastTime, prevDelta>>

\* u.delta(), u.time(), u.resolution()
Delta == Src("delta", 0, 0)
Time == Src("time", 0, 0)
Resolution == Src("resolution", 0, 0)

\* the uniform assignments of the convenience-uniform scenario
Convenience == {<<>>, <<Delta>>, <<Time>>, <<Resolution>>}

\* Convenience-uniform scenario: time passes, the surface is resized to a square, the
\* caller's first shader draws onto the surface, the Framebuffer and the first
\* Doublebuffer, and the second shader onto the surface
NextUniforms ==
  \/ ops < MaxUniformOps /\ Tick
  \/ \E w \in Dims : ops < MaxUniformOps /\ Resize(w, w)
  \/ \E t \in {OutTarget, FbSrc(1), DbSrc(1)} : \E us \in Convenience :
       ops < MaxUniformOps /\ DrawLogged("user", t, us)
  \/ \E us \in Convenience : ops < MaxUniformOps /\ DrawLogged("other", OutTarget, us)

SpecUniforms == Init /\ [][NextUniforms]_vars

\* (variant) a call takes no room on the stack
pushFrameFree(depth) == depth

\* calling activate on the source a source delegates to: one more frame on the stack
pushFrame(depth) == depth + 1

\* what the engine throws when a call finds the stack full
StackOverflow == "Maximum call stack size exceeded"

\* one call of source.activate(location, shader) in the activation c, the source being
\* c.src: u.sampler2D(image) calls image.activate, a Doublebuffer calls activate on what
\* getReadBuffer returns or lets its error through, a Framebuffer calls activate on its
\* getTexture(0), and a view of a texture or a raw image binds its texture; no call is
\* made on a full stack
resolveStep(c, D) ==
  IF c.src.sampler = "no" /\ c.src.kind \notin {"db", "fb"} THEN [c EXCEPT !.status = "done"]
  ELSE IF c.src.kind = "db" /\ c.src.sampler = "no" /\ ~getReadBuffer(D[c.src.h]).ok
  THEN [c EXCEPT !.status = "error",
                 !.err = "Cannot do an initial read from an unseeded double buffer"]
  ELSE IF c.depth >= MaxStack THEN [c EXCEPT !.status = "error", !.err = StackOverflow]
  ELSE [c EXCEPT !.src = IF c.src.sampler # "no" THEN Image(c.src)
                         ELSE IF c.src.kind = "fb" THEN TexSrc(c.src.h, 0)
                         ELSE getReadBuffer(D[c.src.h]).src,
                 !.depth = pushFrame(@)]

\* doublebuffer.activate(location, shader) is called, as Shader.draw calls it for a
\* uniform
Activate(d) ==
  /\ call' = [status |-> "running", src |-> DbSrc(d), depth |-> 1, err |-> ""]
  /\ last' = Log("activate", DbSrc(d), TRUE)
  /\ ops' = ops + 1
  /\ UNCHANGED <<drawsIssued, canvas, surface, gl, fbs, dbs, textureCounter, textures,
                 okDraws, sinceBind, clock, lastTime, prevDelta>>

\* the activation under way makes its next call
Resolve ==
  /\ call.status = "running"
  /\ call' = resolveStep(call, dbs)
  /\ UNCHANGED <<drawsIssued, canvas, surface, gl, fbs, dbs, textureCounter, textures,
                 okDraws, sinceBind, clock, lastTime, prevDelta, last, ops>>

\* Read-resolution scenario: either Doublebuffer is seeded with anything seed accepts
\* (itself and the other Doublebuffer included) and drawn onto, and a read of it is
\* resolved call by call; the caller's next operation starts when the activation has
\* returned or thrown
NextResolve ==
  \/ \E d \in DOMAIN dbs : \E v \in Seeds :
       ops < MaxResolveOps /\ call.status # "running" /\ Seed(d, v)
  \/ \E d \in DOMAIN dbs :
       ops < MaxResolveOps /\ call.status # "running" /\ Draw(DbSrc(d), <<>>)
  \/ \E d \in DOMAIN dbs : ops < MaxResolveOps /\ call.status # "running" /\ Activate(d)
  \/ Resolve

\* a call that was made runs: the engine does not suspend the single thread of control
SpecResolve == Init /\ [][NextResolve]_vars /\ WF_vars(Resolve)

----------------------------------------------------------------------------
(* Properties *)

\* the outcome of shader.draw(t, us) issued from the current state
TryDraw(t, us) == draw("user", t, us, fbs, dbs, gl, surface, canvas, ShaderState("user"))

\* the Framebuffer whose framebuffer object the device has bound in state (F, g)
BoundIn(F, g) == {f \in DOMAIN F : F[f].fbo = g.framebuffer}

\* the backing images of Doublebuffer d
BackingImages(d) == UNION {Range(fbs[f].textures) : f \in Range(dbs[d].buffers)}

(* C1: after n >= 1 consecutive completed draws onto a Doublebuffer that was at
   generation 0, its generation counter is n (one advance per draw), and the next read
   resolves to texture 0 of the backing Framebuffer the n-th draw was rendered into,
   which is not the one the draw before it was rendered into. *)
C1_DrawAdvance ==
  /\ [](\A d \in DOMAIN dbs : dbs[d].count = okDraws[d])
  /\ [][\A d \in DOMAIN dbs :
          (last'.op = "draw" /\ last'.target = DbSrc(d) /\ last'.ok) =>
             /\ dbs'[d].count = dbs[d].count + 1
             /\ getReadBuffer(dbs'[d]).ok
             /\ BoundIn(fbs', gl') # {}
             /\ \A f \in BoundIn(fbs', gl') : getReadBuffer(dbs'[d]).src = TexSrc(f, 0)
             /\ dbs[d].count >= 1 =>
                  getReadBuffer(dbs'[d]).src # getReadBuffer(dbs[d]).src]_vars

C1_Witness ==
  \E d \in DOMAIN dbs :
    /\ last.op = "draw" /\ last.target = DbSrc(d) /\ last.ok
    /\ okDraws[d] = 3
    /\ gl.framebuffer = fbs[dbs[d].buffers[2]].fbo

(* C2: at generation 0 a read of a Doublebuffer (as a uniform of a draw onto any
   target, or by flush) fails when no seed was set; once seed(X) was called it proceeds
   exactly as a read of X does and binds none of the Doublebuffer's own backing
   images. *)
C2_ReadAtGenerationZero ==
  \A d \in DOMAIN dbs :
    dbs[d].count = 0 =>
      IF dbs[d].seedBuffer = NoSeed
      THEN /\ ~getReadBuffer(dbs[d]).ok
           /\ \A t \in Targets : ~TryDraw(t, <<DbSrc(d)>>).ok
      ELSE /\ getReadBuffer(dbs[d]) = [ok |-> TRUE, src |-> dbs[d].seedBuffer]
           /\ \A t \in Targets :
                LET r == TryDraw(t, <<DbSrc(d)>>)
                    x == TryDraw(t, <<dbs[d].seedBuffer>>)
                IN /\ r.ok = x.ok
                   /\ r.gl = x.gl
                   /\ r.ok => /\ r.acts[1].term = x.acts[1].term
                              /\ r.acts[1].tex = x.acts[1].tex
                              /\ r.acts[1].tex \notin BackingImages(d)

C2_Witness ==
  \E d \in DOMAIN dbs :
    /\ last.op = "flush" /\ last.target = DbSrc(d) /\ last.ok
    /\ dbs[d].count = 0
    /\ dbs[d].seedBuffer.kind = "fb"
    /\ gl.units[0] = fbs[dbs[d].seedBuffer.h].textures[1]

(* C3: a draw onto a Doublebuffer at generation g renders into buffers[(g+1) % 2];
   a read of the same Doublebuffer in that draw resolves to the seed when g = 0 and to
   texture 0 of buffers[g % 2] when g > 0; no image the draw binds as a texture is an
   image of the Framebuffer it renders into. *)
C3_ReadWriteDisjoint ==
  ops < MaxOps =>
    \A d \in DOMAIN dbs : \A us \in AtMostOne :
      LET g == dbs[d].count
          r == TryDraw(DbSrc(d), us)
          w == dbs[d].buffers[((g + 1) % 2) + 1]
      IN /\ r.bound = w
         /\ r.gl.framebuffer = r.fbs[w].fbo
         /\ \A i \in DOMAIN r.acts :
              /\ r.acts[i].tex \notin Range(r.fbs[w].textures)
              /\ (r.acts[i].src = DbSrc(d) /\ g > 0) =>
                    r.acts[i].term = TexSrc(dbs[d].buffers[(g % 2) + 1], 0)
              /\ (r.acts[i].src = DbSrc(d) /\ g = 0) =>
                    /\ dbs[d].seedBuffer # NoSeed
                    /\ r.acts[i].term = TryDraw(OutTarget, <<dbs[d].seedBuffer>>).acts[1].term

C3_Witness ==
  \E d \in DOMAIN dbs :
    /\ last.op = "draw" /\ last.target = DbSrc(d) /\ last.ok
    /\ dbs[d].count = 2
    /\ gl.framebuffer = fbs[dbs[d].buffers[1]].fbo
    /\ gl.units[0] = fbs[dbs[d].buffers[2]].textures[1]

(* C4: a Doublebuffer that was the target of at least one completed draw since its
   creation or last seed is read without error - by flush, as a uniform of a draw onto
   any target, and through another Doublebuffer seeded with it - whether or not seed
   was ever called. *)
C4_ImplicitSeed ==
  \A d \in DOMAIN dbs :
    okDraws[d] >= 1 =>
      /\ getReadBuffer(dbs[d]).ok
      /\ \A t \in Targets : TryDraw(t, <<DbSrc(d)>>).ok
      /\ \A e \in DOMAIN dbs :
           (dbs[e].count = 0 /\ Image(dbs[e].seedBuffer) = DbSrc(d)) =>
              \A t \in Targets : TryDraw(t, <<DbSrc(e)>>).ok

C4_Witness ==
  \E d \in DOMAIN dbs :
    /\ dbs[d].seedBuffer = NoSeed
    /\ okDraws[d] >= 1
    /\ last.op = "flush" /\ last.target = DbSrc(d) /\ last.ok
    /\ surface = Drawn

(* C5: seed(source) at any generation sets the generation counter to 0 and replaces
   the seed: the next read resolves to the new seed and the next draw renders into
   buffers[1]. *)
C5_SeedResets ==
  [][\A d \in DOMAIN dbs :
       (last'.op = "seed" /\ last'.target = DbSrc(d)) =>
          /\ dbs'[d].count = 0
          /\ Image(dbs'[d].seedBuffer) = last'.arg
          /\ getReadBuffer(dbs'[d]) = [ok |-> TRUE, src |-> Sampler2D(last'.arg, Undefined)]
          /\ getWriteBuffer(dbs'[d]) = dbs[d].buffers[2]
          /\ BoundFramebuffer(dbs', DbSrc(d)) = dbs[d].buffers[2]]_vars

C5_Witness ==
  \E d \in DOMAIN dbs :
    /\ last.op = "seed" /\ last.target = DbSrc(d)
    /\ dbs[d].count = 0
    /\ gl.images[fbs[dbs[d].buffers[1]].textures[1]] = Drawn
    /\ gl.images[fbs[dbs[d].buffers[2]].textures[1]] = Drawn

(* C6: a Doublebuffer's generation counter and seed change only in a completed draw
   that targets it (counter + 1, seed kept) and in its own seed() (counter 0): a flush,
   a failed draw, and a draw onto any other target leave both unchanged. *)
C6_CounterFrame ==
  [][\A d \in DOMAIN dbs :
       \/ dbs'[d] = dbs[d]
       \/ /\ last'.op = "seed" /\ last'.target = DbSrc(d)
          /\ dbs'[d].count = 0
       \/ /\ last'.op = "draw" /\ last'.target = DbSrc(d) /\ last'.ok
          /\ dbs'[d] = [dbs[d] EXCEPT !.count = @ + 1]]_vars

C6_Witness ==
  \E d, e \in DOMAIN dbs :
    /\ d # e
    /\ last.op = "draw" /\ last.target = DbSrc(e) /\ last.ok
    /\ dbs[d].count = 1 /\ dbs[d].seedBuffer = NoSeed
    /\ gl.units[0] = fbs[dbs[d].buffers[2]].textures[1]

(* C7: in every draw the texture-type uniforms get the slots 0, 1, ... in iteration
   order, one slot each, each bound at the unit of its slot, whatever the slot counter
   was left at by earlier draws; the counter ends at the number of texture-type
   uniforms activated, which is all k of them when the draw completes. *)
C7_TextureSlots ==
  ops < MaxSlotOps =>
    \A t \in SlotTargets : \A us \in UniformLists :
      LET r == TryDraw(t, us)
          texActs == SelectSeq(r.acts, LAMBDA a : a.term.kind # "float")
          k == Cardinality({i \in DOMAIN us : us[i].kind # "float"})
      IN /\ \A j \in DOMAIN texActs :
              /\ texActs[j].slot = j - 1
              /\ Lookup(r.gl.units, j - 1) = texActs[j].tex
         /\ \A j \in DOMAIN r.acts : r.acts[j].term.kind = "float" => r.acts[j].slot = -1
         /\ r.counter = Len(texActs)
         /\ r.ok => (r.counter = k /\ Len(r.acts) = Len(us))

C7_Witness ==
  /\ last.op = "draw" /\ last.ok
  /\ textureCounter["user"] = 1
  /\ Lookup(gl.units, 0) # 0
  /\ Lookup(gl.units, 1) # 0

\* the step binds Framebuffer f: directly, or as what the target of a draw binds
Binds(f) ==
  /\ last'.op \in {"bind", "draw"}
  /\ BoundFramebuffer(dbs, last'.target) = f

\* the step leaves Framebuffer f's framebuffer object, images, their content and its
\* recorded size as they are
Untouched(f) ==
  /\ fbs'[f] = fbs[f]
  /\ fbs[f].fbo \in gl'.fbos
  /\ \A t \in Range(fbs[f].textures) : t \in DOMAIN gl'.images /\ gl'.images[t] = gl.images[t]

\* the step gives Framebuffer f a new framebuffer object and new images
Recreated(f) ==
  /\ fbs'[f].fbo \notin gl.fbos
  /\ fbs[f].fbo \notin gl'.fbos
  /\ Range(fbs'[f].textures) \cap DOMAIN gl.images = {}
  /\ Range(fbs[f].textures) \cap DOMAIN gl'.images = {}
  /\ Len(fbs'[f].textures) = fbs[f].numTextures
  /\ (last'.op = "bind" \/ ~last'.ok) =>
        \A t \in Range(fbs'[f].textures) : gl'.images[t] = Clear

(* C8: a bind of a Framebuffer (direct, or as the target of a draw) with the surface
   size unchanged since its previous bind keeps its framebuffer object and backing
   images and binds that object; what the images held survives the bind (a draw that
   completes then renders into them). *)
C8_BindKeepsImages ==
  [][\A f \in DOMAIN fbs :
       (Binds(f) /\ sinceBind[f] = "same") =>
          /\ fbs'[f] = fbs[f]
          /\ fbs[f].fbo \in gl'.fbos
          /\ gl'.framebuffer = fbs[f].fbo
          /\ Range(fbs[f].textures) \subseteq DOMAIN gl'.images
          /\ (last'.op = "bind" \/ ~last'.ok) => Untouched(f)]_vars

C8_Witness ==
  /\ last.op = "bind" /\ last.target = FbSrc(1) /\ last.since = "same"
  /\ gl.images[fbs[1].textures[1]] = Drawn
  /\ gl.framebuffer = fbs[1].fbo

(* C9 as stated: a bind after the surface size changed since the previous bind always
   yields freshly created, cleared images. *)
C9_Original ==
  [][\A f \in DOMAIN fbs :
       (Binds(f) /\ sinceBind[f] = "changed") => Recreated(f)]_vars

(* C9: a bind of a Framebuffer whose recorded width or height differs from
   floor(surface size * scale) yields a new framebuffer object and new, cleared images;
   after every bind the recorded width and height are floor(surfaceWidth * scale) and
   floor(surfaceHeight * scale) of the current surface. *)
C9_BindTracksSize ==
  [][\A f \in DOMAIN fbs :
       Binds(f) =>
          /\ (\/ fbs[f].width # Scaled(canvas.width, fbs[f].scale)
              \/ fbs[f].height # Scaled(canvas.height, fbs[f].scale)) => Recreated(f)
          /\ fbs'[f].width = Scaled(canvas'.width, fbs[f].scale)
          /\ fbs'[f].height = Scaled(canvas'.height, fbs[f].scale)
          /\ gl'.framebuffer = fbs'[f].fbo]_vars

C9_Witness ==
  /\ last.op = "bind" /\ last.target = FbSrc(1) /\ last.since = "changed"
  /\ fbs[1].fbo + fbs[1].numTextures + 1 = gl.next
  /\ fbs[1].width = 3 /\ canvas.width = 6
  /\ \A t \in Range(fbs[1].textures) : gl.images[t] = Clear

(* C10: only a bind can reinitialize a Framebuffer: a resize, a flush and a draw that
   binds another target (also when it reads the Framebuffer) leave its framebuffer
   object, its images, their content and its recorded width and height unchanged. *)
C10_LazyResize ==
  [][\A f \in DOMAIN fbs : Binds(f) \/ Untouched(f)]_vars

C10_Witness ==
  /\ last.op = "flush" /\ last.target = FbSrc(1) /\ last.ok
  /\ fbs[1].width # Scaled(canvas.width, fbs[1].scale)
  /\ surface = Drawn

(* C11: after any sequence of operations, getColorAt(x, y) returns the pixel of the
   visible surface at canvas coordinates (x, y), that is device row height-1-y of the
   surface, and never a pixel of an offscreen buffer. *)
C11_ReadsVisibleSurface ==
  last.op = "getColorAt" =>
    last.read = [framebuffer |-> 0, x |-> last.args[1],
                 y |-> canvas.height - 1 - last.args[2], data |-> surface]

(* C12: shader creation fails and returns no Shader whenever the vertex stage fails to
   compile, the fragment stage fails to compile, or linking the two stages fails; a
   Shader is obtained only when all three steps succeeded. *)
C12_CreationFailsOnAnyStage ==
  last.op = "createShader" =>
    (last.ok <=> (last.flags[1] /\ last.flags[2] /\ last.flags[3]))

\* how many times the diagnostic message was written to the console c
Count(c, message) == Len(SelectSeq(c, LAMBDA m : m = message))

(* C13: for every combination of inputs, setActiveTextureParams(params, uncapped)
   applies filter = params.filter when given, otherwise nearest when uncapped is true
   and the device lacks linear sampling of uncapped textures, otherwise linear; and
   wrap = params.wrap when given, otherwise mirroredRepeat; the same filter goes to MIN
   and MAG filter and the same wrap to both axes. *)
C13_ParamResolution ==
  \A f \in Filters, w \in Wraps, uncapped \in BOOLEAN :
    LET t == Lookup(gl.units, gl.activeTexture)
        p == TexParams(setActiveTextureParams(gl, Params(f, w), uncapped), t)
        filter == IF f # "none" THEN f
                  ELSE IF uncapped /\ "OES_texture_float_linear" \notin gl.extensions
                       THEN "nearest" ELSE "linear"
        wrap == IF w # "none" THEN w ELSE "mirroredRepeat"
    IN /\ t # 0
       /\ p.TEXTURE_MIN_FILTER = (IF filter = "nearest" THEN "NEAREST" ELSE "LINEAR")
       /\ p.TEXTURE_MAG_FILTER = p.TEXTURE_MIN_FILTER
       /\ p.TEXTURE_WRAP_S = (CASE wrap = "repeat" -> "REPEAT"
                                [] wrap = "clampToEdge" -> "CLAMP_TO_EDGE"
                                [] wrap = "mirroredRepeat" -> "MIRRORED_REPEAT")
       /\ p.TEXTURE_WRAP_T = p.TEXTURE_WRAP_S

C13_Witness ==
  /\ last.op = "draw" /\ last.ok
  /\ "OES_texture_float_linear" \notin gl.extensions
  /\ last.uniforms = <<Sampler2D(FbSrc(1), Params("none", "repeat"))>>
  /\ fbs[1].usesFloatingPointTextures
  /\ TexParams(gl, last.acts[1].tex) =
       [TEXTURE_MIN_FILTER |-> "NEAREST", TEXTURE_MAG_FILTER |-> "NEAREST",
        TEXTURE_WRAP_S |-> "REPEAT", TEXTURE_WRAP_T |-> "REPEAT"]

(* C14: when the device lacks linear sampling of uncapped textures and the caller
   requests no filter, the filter in effect at the end of a u.sampler2D(value, params)
   activation is nearest whenever the image bound is an uncapped-range image, for every
   way of passing it: the Framebuffer, a view from its getTexture(i), a Doublebuffer
   created uncapped, a Doublebuffer whose read source is an uncapped seed. *)
C14_UncappedDefaultsToNearest ==
  ( /\ last.op = "draw" /\ last.ok
    /\ Len(last.uniforms) = 1
    /\ last.uniforms[1].sampler # "no"
    /\ last.uniforms[1].filter = "none"
    /\ "OES_texture_float_linear" \notin gl.extensions ) =>
      LET a == last.acts[1]
      IN ( /\ a.term.kind = "tex"
           /\ fbs[a.term.h].usesFloatingPointTextures
           /\ gl.formats[a.tex] = "RGBA32F" ) =>
             /\ TexParams(gl, a.tex).TEXTURE_MIN_FILTER = "NEAREST"
             /\ TexParams(gl, a.tex).TEXTURE_MAG_FILTER = "NEAREST"

(* C15: when the caller explicitly requests filter 'linear' in u.sampler2D on an
   uncapped-range Framebuffer and the device lacks linear-sampling support, the
   activation does not fail, linear is the filter applied, and exactly one diagnostic
   is emitted per activation; none is emitted when the filter is left to default, is
   'nearest', or when the parameters are given as a callback. *)
C15_LinearHonouredWithWarning ==
  [][( /\ last'.op = "draw"
       /\ Len(last'.uniforms) = 1
       /\ last'.uniforms[1].sampler # "no"
       /\ Image(last'.uniforms[1]) = FbSrc(1)
       /\ fbs[1].usesFloatingPointTextures
       /\ "OES_texture_float_linear" \notin gl.extensions ) =>
         IF last'.uniforms[1].filter = "linear"
         THEN /\ last'.ok
              /\ TexParams(gl', last'.acts[1].tex).TEXTURE_MIN_FILTER = "LINEAR"
              /\ TexParams(gl', last'.acts[1].tex).TEXTURE_MAG_FILTER = "LINEAR"
              /\ Count(gl'.console, LinearWarning) = Count(gl.console, LinearWarning) + 1
         ELSE /\ last'.ok
              /\ Count(gl'.console, LinearWarning) = Count(gl.console, LinearWarning)]_vars

C15_Witness ==
  /\ last.op = "draw" /\ last.ok
  /\ last.uniforms = <<Sampler2D(FbSrc(1), Params("linear", "none"))>>
  /\ fbs[1].usesFloatingPointTextures
  /\ "OES_texture_float_linear" \notin gl.extensions
  /\ Count(gl.console, LinearWarning) = 2
  /\ TexParams(gl, fbs[1].textures[1]).TEXTURE_MIN_FILTER = "LINEAR"

(* C16: creating a Framebuffer with uncapped range requested on a device without
   uncapped-texture support does not fail: a diagnostic is emitted and every backing
   image is allocated in capped 8-bit-per-channel storage, both at construction and at
   every later lazy re-initialization. *)
C16_FallbackToCapped ==
  []["EXT_color_buffer_float" \notin gl.extensions =>
       /\ (last'.op = "createFramebuffer" /\ last'.flags[1] /\ last'.args[1] \in 1..16) =>
             /\ last'.ok
             /\ fbs'[last'.target.h].usesFloatingPointTextures
             /\ Count(gl'.console, FloatWarning) > Count(gl.console, FloatWarning)
             /\ \A t \in Range(fbs'[last'.target.h].textures) : gl'.formats[t] = "RGBA"
       /\ \A f \in DOMAIN fbs :
            (fbs[f].usesFloatingPointTextures /\ fbs'[f].fbo # fbs[f].fbo) =>
               /\ Count(gl'.console, FloatWarning) > Count(gl.console, FloatWarning)
               /\ fbs'[f].textures # <<>>
               /\ \A t \in Range(fbs'[f].textures) : gl'.formats[t] = "RGBA"]_vars

C16_Witness ==
  /\ "EXT_color_buffer_float" \notin gl.extensions
  /\ fbs[1].usesFloatingPointTextures
  /\ fbs[1].fbo # 1
  /\ last.op = "bind" /\ last.target = FbSrc(1)
  /\ Count(gl.console, FloatWarning) = 4
  /\ \A t \in Range(fbs[1].textures) : gl.formats[t] = "RGBA"

(* C19: a Framebuffer created with scaledownFactor f is smaller than the canvas by the
   factor f: for every f >= 1 its width and height do not exceed the width and height
   of the canvas, and with f = 1 they equal them. *)
C19_ScaledownNeverLarger ==
  (last.op = "createFramebuffer" /\ last.ok) =>
    LET fb == fbs[last.target.h]
    IN /\ fb.scale[1] >= fb.scale[2] =>
            fb.width <= canvas.width /\ fb.height <= canvas.height
       /\ fb.scale[1] = fb.scale[2] =>
            fb.width = canvas.width /\ fb.height = canvas.height

(* C20: the texture-slot lookup succeeds exactly for indices 0..31 and the
   output-attachment lookup exactly for indices 0..15, and each fails for every other
   index; so a draw that binds a 33rd texture in one call fails, and creating a
   Framebuffer with more than 16 textures fails. *)
C20_SlotLimits ==
  /\ \A index \in -2..40 :
       /\ getTextureNumber(index).ok <=> index \in 0..31
       /\ getColorAttachmentNumber(index).ok <=> index \in 0..15
  /\ last.op = "draw" =>
       /\ Len(last.uniforms) >= 33 => ~last.ok /\ Len(last.acts) = 32
       /\ Len(last.uniforms) <= 32 => last.ok /\ Len(last.acts) = Len(last.uniforms)
       /\ \A i \in DOMAIN last.acts : last.acts[i].slot = i - 1
  /\ last.op = "createFramebuffer" =>
       /\ last.args[1] > 16 => ~last.ok
       /\ last.args[1] <= 16 => last.ok /\ Len(fbs[last.target.h].textures) = last.args[1]

C20_Witness ==
  /\ last.op = "draw" /\ ~last.ok
  /\ Len(last.uniforms) = 33
  /\ Len(fbs) = 5
  /\ gl.next = 30

(* C17: the value bound by u.delta() is 1/60 on the first delta activation ever made on
   the Context, and on every later one the time elapsed since the previous delta
   activation on the same Context, whichever Shader made either; the last-activation
   timestamp is Context-wide and only delta activations update it. *)
C17_DeltaSincePrevious ==
  [][/\ \A i \in DOMAIN last'.acts :
          (last'.op = "draw" /\ last'.acts[i].term.kind = "delta") =>
             /\ last'.acts[i].value =
                  (IF prevDelta = 0 THEN <<1, 60>> ELSE <<clock - prevDelta, 1000>>)
             /\ lastTime' = clock
     /\ lastTime' # lastTime =>
           /\ last'.op = "draw"
           /\ \E i \in DOMAIN last'.acts : last'.acts[i].term.kind = "delta"]_vars

C17_Witness ==
  /\ last.op = "draw" /\ last.ok /\ last.shader = "other"
  /\ last.uniforms = <<Delta>>
  /\ last.acts[1].value = <<1, 1000>>
  /\ lastTime = clock
  /\ clock = FirstTime + 1

(* C18: in every draw, u.resolution() evaluates to the width and height in pixels of
   the render target that is active for that draw, whether the target is the visible
   surface, a Framebuffer of any scale factor, or a Doublebuffer. *)
C18_ResolutionOfTarget ==
  last.op = "draw" =>
    (\A i \in DOMAIN last.acts :
       (last.acts[i].term.kind = "resolution") => (last.acts[i].value = last.size))

\* C21: constructing a Context on a canvas that already has a connection of another
\* kind, or for which no webgl2 connection can be obtained, throws and yields no
\* Context; on any other canvas it yields one
C21_ContextNeedsConnection ==
  last.op = "fragFrog" =>
    IF last.shader \notin {"none", "webgl2"} \/ (last.shader = "none" /\ ~last.flags[1])
    THEN ~last.ok /\ ~last.flags[2]
    ELSE last.ok /\ last.flags[2]

C21_Witness ==
  last.op = "fragFrog" /\ last.shader = "2d" /\ last.flags[1] /\ ~last.ok

\* C22: in every draw by a shader that declares an XY varying, the resolution input
\* equals the width and height of the buffer rendered into, which is also the viewport,
\* whatever the target and however the surface was resized before
C22_ResolutionOfRenderedBuffer ==
  \A t \in Targets :
    LET r == TryDraw(t, <<>>)
    IN r.ok =>
         /\ r.res = r.viewport
         /\ r.res = IF r.bound = 0 THEN <<canvas.width, canvas.height>>
                    ELSE <<r.fbs[r.bound].width, r.fbs[r.bound].height>>

\* C23 (as stated): over every sequence of operations a Doublebuffer's generation
\* counter never decreases and equals the number of draws issued to it
C23_CounterMonotonic ==
  [][\A d \in DOMAIN dbs :
       /\ dbs'[d].count >= dbs[d].count
       /\ dbs'[d].count = drawsIssued'[d]]_vars

\* C23 (amended): a Doublebuffer's generation counter never decreases except that its
\* own seed() sets it to 0, and it equals the number of draws completed onto the
\* Doublebuffer since its creation or its latest seed(), which is never more than the
\* number of draws issued to it
C23_CounterSinceSeed ==
  [][\A d \in DOMAIN dbs :
       /\ IF last'.op = "seed" /\ last'.target = DbSrc(d)
          THEN dbs'[d].count = 0
          ELSE dbs'[d].count >= dbs[d].count
       /\ dbs'[d].count = okDraws'[d]
       /\ dbs'[d].count <= drawsIssued'[d]]_vars

C23_Witness ==
  \E d \in DOMAIN dbs :
    /\ last.op = "seed" /\ last.target = DbSrc(d)
    /\ drawsIssued[d] = 2
    /\ dbs[d].count = 0

\* C24: a Framebuffer's usesFloatingPointTextures is true exactly when its backing
\* images are stored in the uncapped format; one that fell back to capped storage has
\* the flag false, and a u.sampler2D activation of it with no parameters leaves the
\* filter linear and emits no diagnostic
C24_FlagTellsStorage ==
  \A f \in DOMAIN fbs :
    fbs[f].textures # <<>> =>
      /\ fbs[f].usesFloatingPointTextures <=>
            \A t \in Range(fbs[f].textures) : gl.formats[t] = "RGBA32F"
      /\ (\A t \in Range(fbs[f].textures) : gl.formats[t] = "RGBA") =>
            LET r == TryDraw(OutTarget, <<Sampler2D(FbSrc(f), Undefined)>>)
            IN /\ r.ok
               /\ TexParams(r.gl, r.acts[1].tex).TEXTURE_MIN_FILTER = "LINEAR"
               /\ TexParams(r.gl, r.acts[1].tex).TEXTURE_MAG_FILTER = "LINEAR"
               /\ r.gl.console = gl.console

\* C25: a u.sampler2D(image, callback) activation binds the texture at its slot, applies
\* the default texture parameters and then calls the callback exactly once: the wrap
\* modes the callback sets are in effect afterwards and the filters are the ones the
\* same activation without parameters applies; no other activation calls it
C25_CallbackAfterDefaults ==
  [][IF /\ last'.op = "draw" /\ last'.ok
        /\ Len(last'.uniforms) = 1
        /\ last'.uniforms[1].sampler = "callback"
     THEN LET a == last'.acts[1]
              d == TryDraw(OutTarget, <<Sampler2D(Image(last'.uniforms[1]), Undefined)>>)
          IN /\ a.tex # 0
             /\ gl'.units[a.slot] = a.tex
             /\ gl'.delegated = gl.delegated + 1
             /\ d.ok /\ d.acts[1].tex = a.tex
             /\ TexParams(gl', a.tex) =
                  [TexParams(d.gl, a.tex) EXCEPT !.TEXTURE_WRAP_S = "REPEAT",
                                                 !.TEXTURE_WRAP_T = "CLAMP_TO_EDGE"]
             /\ TexParams(gl', a.tex).TEXTURE_MIN_FILTER \in {"LINEAR", "NEAREST"}
     ELSE gl'.delegated = gl.delegated]_vars

C25_Witness ==
  /\ last.op = "draw" /\ last.ok
  /\ Len(last.uniforms) = 1
  /\ last.uniforms[1] = Sampler2D(FbSrc(1), Delegate)
  /\ gl.delegated = 2
  /\ TexParams(gl, last.acts[1].tex) =
       [TEXTURE_MIN_FILTER |-> "NEAREST", TEXTURE_MAG_FILTER |-> "NEAREST",
        TEXTURE_WRAP_S |-> "REPEAT", TEXTURE_WRAP_T |-> "CLAMP_TO_EDGE"]

\* what a caller can tell of the draw that ended in r: whether it threw and what, the
\* Doublebuffers and Framebuffers after it, what each uniform resolved to, at which
\* slot and with which content, the surface, the framebuffer left bound and the content
\* of its images
Outcome(r) ==
  [ok |-> r.ok, err |-> r.err, dbs |-> r.dbs, fbs |-> r.fbs, surface |-> r.surface,
   bound |-> r.bound, viewport |-> r.viewport, framebuffer |-> r.gl.framebuffer,
   acts |-> [i \in DOMAIN r.acts |->
               [term |-> r.acts[i].term, slot |-> r.acts[i].slot,
                data |-> IF r.acts[i].tex \in DOMAIN r.gl.images
                         THEN r.gl.images[r.acts[i].tex] ELSE Clear]],
   drawn |-> IF r.bound = 0 THEN <<>>
             ELSE [i \in DOMAIN r.fbs[r.bound].textures |->
                     r.gl.images[r.fbs[r.bound].textures[i]]]]

\* C26: a draw onto a Doublebuffer that fails during uniform activation (a read of an
\* unseeded Doublebuffer, a texture slot out of range) leaves the target's generation
\* counter and seed as they were, and a seed() and draw that follow have the outcome
\* they have on the Doublebuffer had the failed draw never been made
C26_FailedDrawLeavesTarget ==
  [][\A d \in DOMAIN dbs :
       (last'.op = "draw" /\ last'.target = DbSrc(d) /\ ~last'.ok) =>
          /\ dbs'[d].count = dbs[d].count
          /\ dbs'[d].seedBuffer = dbs[d].seedBuffer
          /\ \A v \in SlotSeeds :
             \A us \in {<<>>, <<DbSrc(d)>>, <<Sampler2D(ImageSrc(1), Undefined), DbSrc(d)>>} :
               Outcome(draw("user", DbSrc(d), us, fbs',
                            [dbs' EXCEPT ![d] = seed(@, v)], gl', surface', canvas',
                            [counter |-> textureCounter'["user"],
                             cache |-> textures'["user"], now |-> clock',
                             firstTime |-> FirstTime, lastTime |-> lastTime']))
               = Outcome(draw("user", DbSrc(d), us, fbs,
                              [dbs EXCEPT ![d] = seed(@, v)], gl, surface, canvas,
                              ShaderState("user")))]_vars

C26_Witness ==
  /\ last.op = "draw" /\ last.target = DbSrc(1) /\ ~last.ok
  /\ textureCounter["user"] = MaxTextureUnits
  /\ dbs[1].count = 1
  /\ dbs[1].seedBuffer # NoSeed
  /\ drawsIssued[1] = 2

\* C27: resolving a read of a Doublebuffer always terminates, with a texture source
\* bound or with an error thrown, however the Doublebuffers are seeded: a Doublebuffer
\* seeded with itself and two seeded with each other at generation 0 included (those
\* end when the call stack is full); and it ends as Shader.draw's activation of that
\* uniform does
C27_ReadResolutionTerminates ==
  /\ (call.status = "running") ~> (call.status \in {"done", "error"})
  /\ []((last.op = "activate" /\ call.status = "done") =>
          /\ call.src.kind \in {"tex", "img"}
          /\ TryDraw(OutTarget, <<last.target>>).ok
          /\ TryDraw(OutTarget, <<last.target>>).acts[1].term = call.src)
  /\ []((last.op = "activate" /\ call.status = "error") =>
          /\ ~TryDraw(OutTarget, <<last.target>>).ok
          /\ TryDraw(OutTarget, <<last.target>>).err = call.err)

C27_Witness ==
  /\ last.op = "activate"
  /\ call.status = "error" /\ call.err = StackOverflow
  /\ Image(dbs[1].seedBuffer) = DbSrc(2) /\ dbs[1].count = 0
  /\ Image(dbs[2].seedBuffer) = DbSrc(1) /\ dbs[2].count = 0

\* C28: when a draw issues the quad, the framebuffer bound is the target's: none for
\* the surface, the Framebuffer's current framebuffer object, for a Doublebuffer the
\* one of its write buffer before the advance (not of the write buffer after it); it
\* is the one target.bind() bound, whatever the uniforms activated in between; a flush
\* draws with no framebuffer bound
C28_TargetBoundAtDraw ==
  [][(last'.op \in {"draw", "flush"} /\ last'.ok) =>
       LET t == IF last'.op = "flush" THEN OutTarget ELSE last'.target
       IN /\ gl'.framebuffer =
               CASE t.kind = "out" -> 0
                 [] t.kind = "fb" -> fbs'[t.h].fbo
                 [] t.kind = "db" -> fbs'[dbs[t.h].buffers[((dbs[t.h].count + 1) % 2) + 1]].fbo
          /\ gl'.framebuffer \in gl'.fbos \cup {0}
          /\ t.kind = "db" => gl'.framebuffer # fbs'[getWriteBuffer(dbs'[t.h])].fbo
          /\ gl'.framebuffer = bindTarget(fbs, dbs, gl, canvas, t).gl.framebuffer]_vars

C28_Witness ==
  /\ last.op = "draw" /\ last.ok /\ last.target = DbSrc(1)
  /\ dbs[1].count = 1
  /\ canvas.width = 5
  /\ fbs[dbs[1].buffers[2]].width = 5 /\ fbs[dbs[1].buffers[1]].width = 4
  /\ gl.framebuffer = fbs[dbs[1].buffers[2]].fbo
  /\ Lookup(gl.units, 0) = fbs[1].textures[1]

\* C29: every activation of a view fb.getTexture(index) binds a live backing image the
\* Framebuffer owns at that time, the one at that index, also after the Framebuffer
\* was re-initialised; an index outside 0 .. numTextures - 1 is rejected
C29_ViewBindsOwnedImage ==
  \A f \in CallerFramebuffers : \A index \in 0..fbs[f].numTextures :
    LET r == TryDraw(OutTarget, <<TexSrc(f, index)>>)
    IN IF index < fbs[f].numTextures
       THEN /\ r.ok
            /\ r.acts[1].tex = fbs[f].textures[index + 1]
            /\ r.acts[1].tex \in DOMAIN r.gl.images
            /\ Lookup(r.gl.units, r.acts[1].slot) = r.acts[1].tex
       ELSE ~r.ok

\* the content of the image the first uniform of the draw that ended in r has bound
Sampled(r) == r.gl.images[r.acts[1].tex]

\* C30: a Doublebuffer keeps its seed by reference. seed() completes whatever the value
\* is, copies nothing and touches no image; a read at generation 0 binds the image the
\* seed source provides when the read is made: the seeding Framebuffer's current
\* texture 0 with its current content, the raw image, or what the seeding Doublebuffer
\* reads as at that time, and it fails then, not at seed time, when that Doublebuffer
\* is unseeded at generation 0
C30_SeedByReference ==
  /\ [][\A d \in DOMAIN dbs :
          (last'.op = "seed" /\ last'.target = DbSrc(d)) =>
             /\ last'.ok
             /\ dbs'[d].seedBuffer = Sampler2D(last'.arg, Undefined)
             /\ gl' = gl /\ fbs' = fbs /\ surface' = surface]_vars
  /\ [](\A d \in DOMAIN dbs :
          (dbs[d].count = 0 /\ dbs[d].seedBuffer # NoSeed) =>
             LET s == Image(dbs[d].seedBuffer)
                 r == TryDraw(OutTarget, <<DbSrc(d)>>)
             IN CASE s.kind = "fb" ->
                       /\ r.ok
                       /\ r.acts[1].tex = fbs[s.h].textures[1]
                       /\ Sampled(r) = gl.images[fbs[s.h].textures[1]]
                  [] s.kind = "img" -> r.ok /\ Sampled(r) = ImageData(s.h)
                  [] s.kind = "db" /\ dbs[s.h].count > 0 ->
                       /\ r.ok
                       /\ r.acts[1].term = TexSrc(dbs[s.h].buffers[(dbs[s.h].count % 2) + 1], 0)
                       /\ Sampled(r) = gl.images[fbs[r.acts[1].term.h].textures[1]]
                  [] s.kind = "db" /\ dbs[s.h].count = 0 /\ dbs[s.h].seedBuffer = NoSeed ->
                       /\ ~r.ok
                       /\ r.err = "Cannot do an initial read from an unseeded double buffer"
                  [] OTHER ->
                       Outcome(r) = Outcome(TryDraw(OutTarget, <<DbSrc(s.h)>>)))

C30_Witness ==
  /\ ops = 3
  /\ last.op = "draw" /\ last.target = DbSrc(2) /\ last.ok
  /\ dbs[2].count = 1
  /\ Image(dbs[1].seedBuffer) = DbSrc(2) /\ dbs[1].count = 0
  /\ Image(dbs[2].seedBuffer) = FbSrc(1)
  /\ Sampled(TryDraw(OutTarget, <<DbSrc(1)>>)) = Drawn
  /\ gl.images[fbs[1].textures[1]] = Clear
====
